---- MODULE Spec2Model ----
(***************************************************************************)
(* A model of the nexus-cli commands `contexts` (src/contexts/commands.py) *)
(* and `orgs fetch`, `create`, `update`, `list`, `deprecate`, `select` and *)
(* `current` (src/nexuscli/orgs.py).                                       *)
(*                                                                         *)
(* One behaviour is one command invocation: Init draws the command line    *)
(* and the configuration, every network call draws the service's answer.   *)
(* The service is not fixed in advance: each GET may be answered with any  *)
(* response of the wire shape, so a `next` link may point anywhere, also   *)
(* to a URL already requested.                                             *)
(*                                                                         *)
(* Spec is one invocation of any command.  SpecRace is two `orgs update`   *)
(* invocations interleaved against a service that keeps the organization;  *)
(* SpecTwin is two `contexts --search` invocations with different terms,   *)
(* one after the other, against the same service.                          *)
(***************************************************************************)
EXTENDS Integers, Sequences, FiniteSets, TLC

(***************************************************************************)
(* Bounds of the model.                                                    *)
(***************************************************************************)
NUrls    == 2      \* page URLs are 1..NUrls
MaxGets  == 4      \* GETs of one `contexts` invocation the model follows
MaxRev   == 2      \* revisions are 0..MaxRev

(***************************************************************************)
(* Program constants.                                                      *)
(***************************************************************************)
HTTP_OK == 200     \* the only status the traversal accepts

NoUrl    == 0      \* Python's None for data_url / an absent `next`
StartUrl == 1      \* config['url'] + '/v0/contexts'
PageUrls == 1..NUrls
\* The `results` lists a page may carry, as lists of item URLs (resultId).
ResultLists == {<<>>, <<1>>, <<2, 1>>}
FailStatuses == {404, 500}

NoRev == -1        \* Python's None for --revision
NoTerm == "?none"  \* Python's None for --search
Terms == {"alpha", "beta"}
NoStr == "?none"   \* Python's None for --name / --description
Strs == {"A", "B"}
Revs == 1..MaxRev  \* revisions the service assigns

VARIABLES
    cmd,            \* the command invoked: "contexts", "fetch", "create", "update",
                    \* "list", "deprecate", "select", "current"
    pc,             \* position of the command in its code
    exit,           \* "running", "ok" (exit 0), "error" (utils.error), "crash" (uncaught exception)
    selected,       \* contexts: a deployment is selected (c is not None)
    list,           \* contexts: the --list flag
    search,         \* contexts: the --search term, NoTerm when not given
    data_url,       \* contexts: URL of the page to request next, NoUrl for None
    r,              \* contexts: the response of the last page GET
    idx,            \* contexts: index in context_list of the next item of the for loop
    table,          \* contexts: rows added to the PrettyTable so far
    count,          \* contexts: the running counter
    gets,           \* contexts: every GET issued, in order, with its response
    out,            \* what was printed, in order
    label,          \* orgs: the label argument
    revision,       \* orgs fetch: --revision, NoRev when not given
    _payload,       \* orgs update: --data, [given, text]
    name,           \* orgs update: --name, NoStr when not given
    description,    \* orgs update: --description, NoStr when not given
    data,           \* orgs update: the local `data` dictionary
    fetched,        \* orgs: the response of the fetch, as it was returned
    current_revision,   \* orgs update: data["_rev"] read after the fetch
    data_md5_before,    \* orgs update: fingerprint of the fetched state
    source,         \* orgs update: the branch of lines 64-82 that ran
    calls,          \* orgs: every client call issued, in order
    _json,          \* orgs create / list / deprecate: the --json-only flag
    default_org,    \* config store: the default organization, NoStr when none is set
    writes,         \* config store: how often this invocation has written it
    me,             \* the invocation (process) that is running: 1 or 2
    peer,           \* the local state of the other invocation, when there are two
    svc             \* the organization the service stores, when the service is modelled

vars == <<cmd, pc, exit, selected, list, search, data_url, r, idx, table,
          count, gets, out, label, revision, _payload, name, description, data,
          fetched, current_revision, data_md5_before, source, calls, _json,
          default_org, writes, me, peer, svc>>

ctxVars == <<selected, list, search, data_url, r, idx, table, count, gets>>
orgVars == <<label, revision, _payload, name, description, data, fetched,
             current_revision, data_md5_before, source, calls, _json>>
\* The config store, and the variables only the other specifications use.
storeVars == <<default_org, writes>>
auxVars == <<me, peer, svc>>

(***************************************************************************)
(* Wire shapes of the contexts service.                                    *)
(***************************************************************************)
\* `links` of a page: absent, present without `next`, or with a `next` URL.
LinkValues ==
    {[present |-> FALSE, next |-> NoUrl]} \cup
    {[present |-> TRUE, next |-> u] : u \in {NoUrl} \cup PageUrls}

\* What a GET of a page URL may return.  A body that is not JSON, or a failure
\* status, carries nothing the command reads.
NoBody == [json |-> FALSE, hasResults |-> FALSE, results |-> <<>>,
           links |-> [present |-> FALSE, next |-> NoUrl]]

PageBodies ==
    {NoBody} \cup
    {[json |-> TRUE, hasResults |-> FALSE, results |-> <<>>, links |-> l] :
        l \in LinkValues} \cup
    {[json |-> TRUE, hasResults |-> TRUE, results |-> res, links |-> l] :
        res \in ResultLists, l \in LinkValues}

PageResponses ==
    {[status |-> s, body |-> NoBody] : s \in FailStatuses} \cup
    {[status |-> HTTP_OK, body |-> b] : b \in PageBodies}

\* What a GET of an item URL may return: `terms` is the '@context' list.  A
\* failure carries a JSON error document or a body that is no JSON.
DetailBodies ==
    {[json |-> FALSE, hasContext |-> FALSE, terms |-> <<>>],
     [json |-> TRUE,  hasContext |-> FALSE, terms |-> <<>>],
     [json |-> TRUE,  hasContext |-> TRUE,  terms |-> <<"t1", "t2">>]}

DetailResponses ==
    {[status |-> HTTP_OK, body |-> b] : b \in {b \in DetailBodies : b.json}} \cup
    {[status |-> 500, body |-> b] : b \in {b \in DetailBodies : ~b.hasContext}}

NoResponse == [status |-> 0, body |-> NoBody]

\* payload = r.json()
payload == r.body
\* context_list = payload['results']
context_list == payload.results

(***************************************************************************)
(* Output.  Every printed unit is a record [kind, val]; utils.error prints *)
(* its message and exits the process with a non-zero status.               *)
(***************************************************************************)
Printed(kind, val) == [kind |-> kind, val |-> val]
Message(msg, url, num) == [msg |-> msg, url |-> url, num |-> num]
error(o, m) == Append(o, Printed("error", m))

(***************************************************************************)
(* Pieces of the traversal loops.                                          *)
(***************************************************************************)
\* r.status_code == 404: only "not found" is taken for a failure
PageFailedOnly404(resp) == resp.status = 404

\* r.status_code != 200
PageFailed(resp) == resp.status # HTTP_OK

\* the payload is never looked at for 'results'
MissingResultsNever(p) == FALSE

\* 'results' not in payload
MissingResults(p) == ~p.hasResults

\* line 81: the check after the detail GET reads r, the page's response
DetailFailed(resp, resp2) == resp.status # HTTP_OK

\* if search == 'alpha': the branch is taken for one term only
SearchGivenOneTerm(term) == term = "alpha"

\* line 61: search is not None
SearchGiven(term) == term # NoTerm

\* while True: the loop does not look at data_url
LoopNeverEnds(url) == TRUE

\* while data_url is not None
LoopContinues(url) == url # NoUrl

\* payload['links']['next'] if 'links' in payload and 'next' in payload['links'],
\* else None
NextLink(p) ==
    IF p.links.present /\ p.links.next # NoUrl THEN p.links.next ELSE NoUrl

RECURSIVE AddRowsFront(_, _)
\* table rows inserted at the top instead of added at the bottom
AddRowsFront(t, l) ==
    IF l = <<>> THEN t ELSE AddRowsFront(<<Head(l)>> \o t, Tail(l))

RECURSIVE AddRows(_, _)
\* for context in context_list: table.add_row([context['resultId']])
AddRows(t, l) == IF l = <<>> THEN t ELSE AddRows(Append(t, Head(l)), Tail(l))

\* count += 1 once per page, outside the for loop
CountRowsPerPage(c, l) == c + 1

\* count += 1 for every row added
CountRows(c, l) == c + Len(l)

RECURSIVE PrintTerms(_, _)
\* for term in context_payload['@context']: print(term)
PrintTerms(o, ts) ==
    IF ts = <<>> THEN o ELSE PrintTerms(Append(o, Printed("term", Head(ts))), Tail(ts))

\* One entry of the log of GETs: `by` is the traversal that issued it.
Get(kind, by, url, resp) == [kind |-> kind, by |-> by, url |-> url, resp |-> resp]

Exit(status) == exit' = status /\ pc' = "done"

(***************************************************************************)
(* contexts                                                                *)
(***************************************************************************)
\* lines 21-34: the deployment check, then the entry of the --list branch
ContextsStartStep ==
    /\ cmd = "contexts" /\ pc = "start"
    /\ IF ~selected
       THEN /\ out' = error(out, Message("select a deployment", NoUrl, 0))
            /\ Exit("error")
            /\ UNCHANGED <<data_url, count, table>>
       ELSE IF list
       THEN /\ data_url' = StartUrl
            /\ count' = 0
            /\ table' = <<>>
            /\ pc' = "list_loop"
            /\ UNCHANGED <<out, exit>>
       ELSE /\ pc' = "search_check"
            /\ UNCHANGED <<out, exit, data_url, count, table>>
    /\ UNCHANGED <<cmd, selected, list, search, r, idx, gets>>
    /\ UNCHANGED orgVars

\* ContextsStartStep as a step of one command invocation: nothing else moves
ContextsStart == ContextsStartStep /\ UNCHANGED <<storeVars, auxVars>>

\* lines 35-55: one iteration of the --list loop
ListGetPage ==
    /\ cmd = "contexts" /\ pc = "list_loop"
    /\ LoopContinues(data_url)
    /\ Len(gets) < MaxGets
    /\ \E resp \in PageResponses :
        /\ gets' = Append(gets, Get("page", "list", data_url, resp))
        /\ r' = resp
        /\ IF PageFailed(resp)
           THEN /\ out' = error(out, Message("Failed to list contexts", data_url, resp.status))
                /\ Exit("error")
                /\ UNCHANGED <<table, count, data_url>>
           ELSE IF ~resp.body.json
           THEN /\ Exit("crash")
                /\ UNCHANGED <<out, table, count, data_url>>
           ELSE IF MissingResults(resp.body)
           THEN /\ out' = error(Append(out, Printed("red_json", resp.body)),
                                Message("Could not find attribute 'results'", data_url, 0))
                /\ Exit("error")
                /\ UNCHANGED <<table, count, data_url>>
           ELSE /\ table' = AddRows(table, resp.body.results)
                /\ count' = CountRows(count, resp.body.results)
                /\ data_url' = NextLink(resp.body)
                /\ UNCHANGED <<out, exit, pc>>
    /\ UNCHANGED <<cmd, selected, list, search, idx>>
    /\ UNCHANGED orgVars
    /\ UNCHANGED <<storeVars, auxVars>>

\* lines 57-58: the loop has ended, print the table and the total
ListPrint ==
    /\ cmd = "contexts" /\ pc = "list_loop"
    /\ ~LoopContinues(data_url)
    /\ out' = Append(Append(out, Printed("table", table)), Printed("total", count))
    /\ pc' = "search_check"
    /\ UNCHANGED <<cmd, exit, selected, list, search, data_url, r, idx, table, count, gets>>
    /\ UNCHANGED orgVars
    /\ UNCHANGED <<storeVars, auxVars>>

\* lines 61-64: the entry of the --search branch, or the end of the command
SearchStartStep ==
    /\ cmd = "contexts" /\ pc = "search_check"
    /\ IF ~SearchGiven(search)
       THEN /\ Exit("ok")
            /\ UNCHANGED <<out, data_url, count>>
       ELSE /\ out' = Append(out, Printed("echo", "search"))
            /\ data_url' = StartUrl
            /\ count' = 0
            /\ pc' = "search_loop"
            /\ UNCHANGED exit
    /\ UNCHANGED <<cmd, selected, list, search, r, idx, table, gets>>
    /\ UNCHANGED orgVars

\* SearchStartStep as a step of one command invocation: nothing else moves
SearchStart == SearchStartStep /\ UNCHANGED <<storeVars, auxVars>>

\* lines 65-76: the page GET of one iteration of the --search loop
SearchGetPageStep ==
    /\ cmd = "contexts" /\ pc = "search_loop"
    /\ LoopContinues(data_url)
    /\ Len(gets) < MaxGets
    /\ \E resp \in PageResponses :
        /\ gets' = Append(gets, Get("page", "search", data_url, resp))
        /\ r' = resp
        /\ IF PageFailed(resp)
           THEN /\ out' = error(out, Message("Failed to list contexts", data_url, resp.status))
                /\ Exit("error")
                /\ UNCHANGED idx
           ELSE IF ~resp.body.json
           THEN /\ Exit("crash")
                /\ UNCHANGED <<out, idx>>
           ELSE IF MissingResults(resp.body)
           THEN /\ out' = error(Append(out, Printed("red_json", resp.body)),
                                Message("Could not find attribute 'results'", data_url, 0))
                /\ Exit("error")
                /\ UNCHANGED idx
           ELSE /\ idx' = 1
                /\ pc' = "search_items"
                /\ UNCHANGED <<out, exit>>
    /\ UNCHANGED <<cmd, selected, list, search, data_url, table, count>>
    /\ UNCHANGED orgVars

\* SearchGetPageStep as a step of one command invocation: nothing else moves
SearchGetPage == SearchGetPageStep /\ UNCHANGED <<storeVars, auxVars>>

\* lines 78-89: one iteration of the for loop over context_list
SearchGetItemStep ==
    /\ cmd = "contexts" /\ pc = "search_items"
    /\ idx <= Len(context_list)
    /\ Len(gets) < MaxGets
    /\ LET context_url == context_list[idx] IN
       \E r2 \in DetailResponses :
        /\ gets' = Append(gets, Get("detail", "search", context_url, r2))
        /\ IF DetailFailed(r, r2)
           THEN /\ out' = error(out, Message("Failed to get context", context_url, r.status))
                /\ Exit("error")
                /\ UNCHANGED idx
           ELSE IF ~r2.body.json
           THEN /\ Exit("crash")
                /\ UNCHANGED <<out, idx>>
           ELSE /\ out' = PrintTerms(
                            Append(out, Printed("json", [url |-> context_url, resp |-> r2])),
                            IF r2.body.hasContext THEN r2.body.terms ELSE <<>>)
                /\ idx' = idx + 1
                /\ UNCHANGED <<exit, pc>>
    /\ UNCHANGED <<cmd, selected, list, search, data_url, r, table, count>>
    /\ UNCHANGED orgVars

\* SearchGetItemStep as a step of one command invocation: nothing else moves
SearchGetItem == SearchGetItemStep /\ UNCHANGED <<storeVars, auxVars>>

\* lines 91-94: after the for loop, follow the next link or leave the loop
SearchNextLinkStep ==
    /\ cmd = "contexts" /\ pc = "search_items"
    /\ idx > Len(context_list)
    /\ data_url' = NextLink(payload)
    /\ pc' = "search_loop"
    /\ UNCHANGED <<cmd, exit, selected, list, search, r, idx, table, count, gets, out>>
    /\ UNCHANGED orgVars

\* SearchNextLinkStep as a step of one command invocation: nothing else moves
SearchNextLink == SearchNextLinkStep /\ UNCHANGED <<storeVars, auxVars>>

\* line 65 with data_url None: the while loop ends and the command returns
SearchEndStep ==
    /\ cmd = "contexts" /\ pc = "search_loop"
    /\ ~LoopContinues(data_url)
    /\ Exit("ok")
    /\ UNCHANGED <<cmd, selected, list, search, data_url, r, idx, table, count, gets, out>>
    /\ UNCHANGED orgVars

\* SearchEndStep as a step of one command invocation: nothing else moves
SearchEnd == SearchEndStep /\ UNCHANGED <<storeVars, auxVars>>

(***************************************************************************)
(* JSON objects.  A dictionary is the sequence of its <<key, value>> pairs *)
(* in insertion order, keys unique; a value is <<"int", n>>, <<"str", s>>  *)
(* or <<"obj", d>> with d a dictionary.  A JSON text is the sequence of    *)
(* its tokens; the token of a nested object holds the text of that object. *)
(***************************************************************************)
Int_(n) == <<"int", n>>
Str_(x) == <<"str", x>>
Obj_(d) == <<"obj", d>>

\* The keys of the model, in the order Python sorts them as strings.
KeyOrder == <<"@context", "_rev", "description", "name">>
Rank(k) == CHOOSE i \in 1..Len(KeyOrder) : KeyOrder[i] = k

HasKey(d, k) == \E i \in 1..Len(d) : d[i][1] = k
\* d[k]
DictGet(d, k) == d[CHOOSE i \in 1..Len(d) : d[i][1] = k][2]
\* d[k] = v: an existing key keeps its place, a new key goes last
DictSet(d, k, v) ==
    IF HasKey(d, k)
    THEN [i \in 1..Len(d) |-> IF d[i][1] = k THEN <<k, v>> ELSE d[i]]
    ELSE Append(d, <<k, v>>)

RECURSIVE Insert(_, _)
Insert(sorted_, kv) ==
    IF sorted_ = <<>> THEN <<kv>>
    ELSE IF Rank(kv[1]) < Rank(Head(sorted_)[1]) THEN <<kv>> \o sorted_
    ELSE <<Head(sorted_)>> \o Insert(Tail(sorted_), kv)

RECURSIVE sorted(_)
\* OrderedDict(sorted(data.items())): the pairs in the order of their keys
sorted(d) == IF d = <<>> THEN <<>> ELSE Insert(sorted(Tail(d)), Head(d))

RECURSIVE dumps(_)
\* json.dumps(d, indent=2): the keys and values in the dictionary's own order,
\* at the top level and inside nested objects (sort_keys is not set)
dumps(d) ==
    IF d = <<>> THEN <<>>
    ELSE LET v == Head(d)[2] IN
         <<<<"key", Head(d)[1]>>, IF v[1] = "obj" THEN <<"obj", dumps(v[2])>> ELSE v>>
            \o dumps(Tail(d))

RECURSIVE ValidJson(_)
\* json.loads accepts a text that alternates keys and values
ValidJson(text) ==
    /\ Len(text) % 2 = 0
    /\ \A i \in 1..Len(text) :
        IF i % 2 = 1 THEN text[i][1] = "key"
        ELSE \/ text[i][1] \in {"int", "str"}
             \/ text[i][1] = "obj" /\ ValidJson(text[i][2])

RECURSIVE loadsInto(_, _)
loadsInto(d, text) ==
    IF text = <<>> THEN d
    ELSE LET v == text[2] IN
         loadsInto(DictSet(d, text[1][2],
                           IF v[1] = "obj" THEN Obj_(loadsInto(<<>>, v[2])) ELSE v),
                   SubSeq(text, 3, Len(text)))

\* json.loads(text) of a valid text: a repeated key keeps its last value
loads(text) == loadsInto(<<>>, text)

\* hashlib.md5(...).hexdigest(), taken as injective
md5(text) == <<"md5", text>>

\* lines 61-62 and 84-85
Fingerprint(d) == md5(dumps(sorted(d)))

(***************************************************************************)
(* The organizations service.                                              *)
(***************************************************************************)
\* The orders in which the service, or a user, may list the keys.
KeyOrders == {<<"_rev", "name", "description">>, <<"name", "description", "_rev">>}

OrgValue(k, rev, n, d) ==
    IF k = "_rev" THEN Int_(rev) ELSE IF k = "name" THEN Str_(n) ELSE Str_(d)

\* The organization with the keys of `o`, without "description" when d = NoStr.
Org(o, rev, n, d) ==
    LET ks == SelectSeq(o, LAMBDA k : k # "description" \/ d # NoStr)
    IN  [i \in 1..Len(ks) |-> <<ks[i], OrgValue(ks[i], rev, n, d)>>]

\* A nested object, as the service or a user may list its keys.
ContextObjects ==
    {<<<<"nxv", Str_("A")>>, <<"schema", Str_("B")>>>>,
     <<<<"schema", Str_("B")>>, <<"nxv", Str_("A")>>>>}

\* An organization that carries a nested object.
NestedOrgs ==
    {<<<<"@context", Obj_(c)>>, <<"_rev", Int_(1)>>, <<"name", Str_("A")>>>> :
        c \in ContextObjects}

Orgs == {Org(o, rev, n, d) :
            o \in KeyOrders, rev \in Revs, n \in Strs, d \in Strs \cup {NoStr}}
        \cup NestedOrgs

\* What nxs.organizations.fetch may return: a resource, or an HTTPError.
HTTPError(status) == [ok |-> FALSE, status |-> status, org |-> <<>>]
Resource(org) == [ok |-> TRUE, status |-> HTTP_OK, org |-> org]
FetchResponses ==
    {HTTPError(st) : st \in FailStatuses} \cup {Resource(org) : org \in Orgs}

\* What nxs.organizations.update may return.
UpdateResponses ==
    {HTTPError(409)} \cup {Resource(<<>>)}

\* The texts given as --data or left by the editor: every organization as the
\* service may print it, one text that repeats a key, and one that is no JSON.
Texts ==
    {dumps(org) : org \in Orgs} \cup
    {<<<<"key", "name">>, Str_("A"), <<"key", "name">>, Str_("B"),
       <<"key", "_rev">>, Int_(1)>>,
     <<<<"bad", "{">>>>}

NoData == [given |-> FALSE, text |-> <<>>]
Given(text) == [given |-> TRUE, text |-> text]

Call(op, lbl, rev, org, resp) ==
    [op |-> op, label |-> lbl, rev |-> rev, org |-> org, resp |-> resp]

\* previous_rev=data["_rev"]: the guard read from the new state
UpdateCallRevFromData(lbl, org, rev, resp) ==
    Call("update", lbl, IF HasKey(org, "_rev") THEN DictGet(org, "_rev") ELSE rev, org, resp)

\* nxs.organizations.update(org=data, previous_rev=current_revision)
UpdateCall(lbl, org, rev, resp) == Call("update", lbl, rev, org, resp)

\* except nxs.HTTPError as e: utils.error(str(e)), the response body dropped
HandleHTTPErrorNoBody(o, resp) == error(o, Message("HTTPError", NoUrl, resp.status))

\* except nxs.HTTPError as e: print_json(e.response.json()); utils.error(str(e))
HandleHTTPError(o, resp) ==
    error(Append(o, Printed("red_json", resp)), Message("HTTPError", NoUrl, resp.status))

(***************************************************************************)
(* orgs fetch                                                              *)
(***************************************************************************)
\* if revision and ...: revision 0 is taken for no revision
RevisionMismatchTruthy(rev, response) ==
    rev # NoRev /\ rev # 0 /\ DictGet(response, "_rev") # Int_(rev)

\* line 25: revision is not None and response["_rev"] != revision
RevisionMismatch(rev, response) ==
    rev # NoRev /\ DictGet(response, "_rev") # Int_(rev)

\* lines 21-30
Fetch ==
    /\ cmd = "fetch" /\ pc = "start"
    /\ \E resp \in FetchResponses :
        /\ calls' = Append(calls, Call("fetch", label, Int_(revision), <<>>, resp))
        /\ fetched' = resp
        /\ IF ~resp.ok
           THEN /\ out' = HandleHTTPError(out, resp)
                /\ Exit("error")
           ELSE IF RevisionMismatch(revision, resp.org)
           THEN /\ out' = error(out, Message("Revision does not exist", NoUrl, revision))
                /\ Exit("error")
           ELSE /\ out' = Append(out, Printed("json", resp.org))
                /\ Exit("ok")
    /\ UNCHANGED <<cmd, label, revision, _json, _payload, name, description, data,
                   current_revision, data_md5_before, source>>
    /\ UNCHANGED ctxVars
    /\ UNCHANGED <<storeVars, auxVars>>

(***************************************************************************)
(* orgs update                                                             *)
(***************************************************************************)
\* lines 57-62: fetch, remember the revision, fingerprint the fetched state
UpdateFetchStep ==
    /\ cmd = "update" /\ pc = "start"
    /\ \E resp \in FetchResponses :
        /\ calls' = Append(calls, Call("fetch", label, Int_(NoRev), <<>>, resp))
        /\ fetched' = resp
        /\ IF ~resp.ok
           THEN /\ out' = HandleHTTPError(out, resp)
                /\ Exit("error")
                /\ UNCHANGED <<data, current_revision, data_md5_before>>
           ELSE /\ data' = resp.org
                /\ current_revision' = DictGet(resp.org, "_rev")
                /\ data_md5_before' = Fingerprint(resp.org)
                /\ pc' = "mutate"
                /\ UNCHANGED <<out, exit>>
    /\ UNCHANGED <<cmd, label, revision, _json, _payload, name, description, source>>
    /\ UNCHANGED ctxVars

\* UpdateFetchStep as a step of one command invocation: nothing else moves
UpdateFetch == UpdateFetchStep /\ UNCHANGED <<storeVars, auxVars>>

\* line 64 without `_payload is None`: the overrides win over --data
BranchOverridesFirst(p, n, d) ==
    IF n # NoStr \/ d # NoStr THEN "overrides"
    ELSE IF p.given THEN "payload"
    ELSE "editor"

\* lines 64, 69, 71: which of the three branches runs
Branch(p, n, d) ==
    IF ~p.given /\ (n # NoStr \/ d # NoStr) THEN "overrides"
    ELSE IF p.given THEN "payload"
    ELSE "editor"

\* line 68 with data["description"] = name
ApplyOverridesNameTwice(dt, n, d) ==
    LET d1 == IF n # NoStr THEN DictSet(dt, "name", Str_(n)) ELSE dt
    IN  IF d # NoStr THEN DictSet(d1, "description", Str_(n)) ELSE d1

\* lines 65-68
ApplyOverrides(dt, n, d) ==
    LET d1 == IF n # NoStr THEN DictSet(dt, "name", Str_(n)) ELSE dt
    IN  IF d # NoStr THEN DictSet(d1, "description", Str_(d)) ELSE d1

\* lines 64-82: derive the new state
UpdateMutateStep ==
    /\ cmd = "update" /\ pc = "mutate"
    /\ source' = Branch(_payload, name, description)
    /\ \E edited \in (IF source' = "editor" THEN Texts \cup {dumps(data)} ELSE {<<>>}) :
        LET text == IF source' = "payload" THEN _payload.text ELSE edited IN
        IF source' = "overrides"
        THEN /\ data' = ApplyOverrides(data, name, description)
             /\ pc' = "submit"
             /\ UNCHANGED <<out, exit>>
        ELSE IF ValidJson(text)
        THEN /\ data' = loads(text)
             /\ out' = IF source' = "editor"
                       THEN Append(out, Printed("echo", "Opening an editor"))
                       ELSE out
             /\ pc' = "submit"
             /\ UNCHANGED exit
        ELSE /\ out' = IF source' = "editor"
                       THEN Append(out, Printed("echo", "Opening an editor"))
                       ELSE out
             /\ Exit("crash")
             /\ UNCHANGED data
    /\ UNCHANGED <<cmd, label, revision, _json, _payload, name, description, fetched,
                   current_revision, data_md5_before, calls>>
    /\ UNCHANGED ctxVars

\* UpdateMutateStep as a step of one command invocation: nothing else moves
UpdateMutate == UpdateMutateStep /\ UNCHANGED <<storeVars, auxVars>>

\* line 86: data_md5_before == data_md5_after
NoChange(before, after) == before = after

\* lines 84-93: fingerprint the new state, then report no change or submit it
UpdateSubmitStep ==
    /\ cmd = "update" /\ pc = "submit"
    /\ LET data_md5_after == Fingerprint(data) IN
       IF NoChange(data_md5_before, data_md5_after)
       THEN /\ out' = Append(out, Printed("echo", "No change in organization, aborting update."))
            /\ Exit("ok")
            /\ UNCHANGED calls
       ELSE \E resp \in UpdateResponses :
            /\ calls' = Append(calls, UpdateCall(label, data, current_revision, resp))
            /\ IF resp.ok
               THEN /\ out' = Append(out, Printed("echo", "Organization updated."))
                    /\ Exit("ok")
               ELSE /\ out' = HandleHTTPError(out, resp)
                    /\ Exit("error")
    /\ UNCHANGED <<cmd, label, revision, _json, _payload, name, description, data, fetched,
                   current_revision, data_md5_before, source>>
    /\ UNCHANGED ctxVars

\* UpdateSubmitStep as a step of one command invocation: nothing else moves
UpdateSubmit == UpdateSubmitStep /\ UNCHANGED <<storeVars, auxVars>>

(***************************************************************************)
(* orgs create                                                             *)
(***************************************************************************)
\* What nxs.organizations.create may return: the created resource, or an error.
CreateResponses ==
    {HTTPError(409)} \cup
    {Resource(Org(<<"_rev", "name", "description">>, 1, n, d)) :
        n \in {IF name = NoStr THEN "A" ELSE name}, d \in {description}}

\* create selects the organization it has created
StoreAfterCreateSelects(st, lbl) == lbl

\* lines 39-48: create never calls utils.set_default_organization
StoreAfterCreate(st, lbl) == st

\* --json-only: utils.print_json(response)
PrintIfJson(o, flag, response) ==
    IF flag THEN Append(o, Printed("json", response)) ELSE o

\* lines 39-48
Create ==
    /\ cmd = "create" /\ pc = "start"
    /\ \E resp \in CreateResponses :
        /\ calls' = Append(calls, Call("create", label, Int_(NoRev), <<>>, resp))
        /\ fetched' = resp
        /\ IF ~resp.ok
           THEN /\ out' = HandleHTTPError(out, resp)
                /\ Exit("error")
           ELSE /\ out' = PrintIfJson(Append(out, Printed("echo", "Organization created")),
                                      _json, resp.org)
                /\ Exit("ok")
    /\ default_org' = StoreAfterCreate(default_org, label)
    /\ UNCHANGED <<cmd, label, revision, _json, _payload, name, description, data,
                   current_revision, data_md5_before, source>>
    /\ UNCHANGED ctxVars
    /\ UNCHANGED <<writes, auxVars>>

(***************************************************************************)
(* orgs list                                                               *)
(***************************************************************************)
\* One entry of response["_results"], with or without a description.
Entry(lbl, d) ==
    IF d = NoStr THEN <<<<"_label", Str_(lbl)>>>>
    ELSE <<<<"_label", Str_(lbl)>>, <<"description", Str_(d)>>>>

ListResponses ==
    {HTTPError(500)} \cup
    {Resource(res) : res \in {<<>>, <<Entry("foo", "A")>>,
                              <<Entry("foo", NoStr), Entry("bar", "B")>>}}

RECURSIVE OrgRows(_)
\* lines 111-115: one row per result, the description empty when there is none
OrgRows(results) ==
    IF results = <<>> THEN <<>>
    ELSE <<<<DictGet(Head(results), "_label"),
             IF HasKey(Head(results), "description")
             THEN DictGet(Head(results), "description") ELSE Str_("")>>>>
         \o OrgRows(Tail(results))

\* lines 99-119
OrgsList ==
    /\ cmd = "list" /\ pc = "start"
    /\ \E resp \in ListResponses :
        /\ calls' = Append(calls, Call("list", label, Int_(NoRev), <<>>, resp))
        /\ fetched' = resp
        /\ IF ~resp.ok
           THEN /\ out' = HandleHTTPError(out, resp)
                /\ Exit("error")
           ELSE /\ out' = IF _json THEN Append(out, Printed("json", resp.org))
                          ELSE Append(out, Printed("org_table", OrgRows(resp.org)))
                /\ Exit("ok")
    /\ UNCHANGED <<cmd, label, revision, _json, _payload, name, description, data,
                   current_revision, data_md5_before, source>>
    /\ UNCHANGED ctxVars
    /\ UNCHANGED <<storeVars, auxVars>>

(***************************************************************************)
(* orgs deprecate                                                          *)
(***************************************************************************)
DeprecateResponses ==
    {HTTPError(409)} \cup {Resource(<<>>)}

\* previous_rev=response["_rev"] + 1: the client computes the next revision
DeprecateCallNextRev(lbl, response, resp) ==
    Call("deprecate", lbl, Int_(DictGet(response, "_rev")[2] + 1), <<>>, resp)

\* nxs.organizations.deprecate(org_label=label, previous_rev=response["_rev"])
DeprecateCall(lbl, response, resp) ==
    Call("deprecate", lbl, DictGet(response, "_rev"), <<>>, resp)

\* lines 127-131: the fetch
DeprecateFetch ==
    /\ cmd = "deprecate" /\ pc = "start"
    /\ \E resp \in FetchResponses :
        /\ calls' = Append(calls, Call("fetch", label, Int_(NoRev), <<>>, resp))
        /\ fetched' = resp
        /\ IF ~resp.ok
           THEN /\ out' = HandleHTTPError(out, resp)
                /\ Exit("error")
           ELSE /\ out' = PrintIfJson(out, _json, resp.org)
                /\ pc' = "deprecate"
                /\ UNCHANGED exit
    /\ UNCHANGED <<cmd, label, revision, _json, _payload, name, description, data,
                   current_revision, data_md5_before, source>>
    /\ UNCHANGED ctxVars
    /\ UNCHANGED <<storeVars, auxVars>>

\* lines 132-138: the deprecation request, guarded by the fetched revision
DeprecateSubmit ==
    /\ cmd = "deprecate" /\ pc = "deprecate"
    /\ \E resp \in DeprecateResponses :
        /\ calls' = Append(calls, DeprecateCall(label, fetched.org, resp))
        /\ IF ~resp.ok
           THEN /\ out' = HandleHTTPError(out, resp)
                /\ Exit("error")
           ELSE /\ out' = Append(PrintIfJson(out, _json, resp.org),
                                 Printed("echo", "Organization was deprecated."))
                /\ Exit("ok")
    /\ UNCHANGED <<cmd, label, revision, _json, _payload, name, description, data,
                   fetched, current_revision, data_md5_before, source>>
    /\ UNCHANGED ctxVars
    /\ UNCHANGED <<storeVars, auxVars>>

(***************************************************************************)
(* orgs select                                                             *)
(***************************************************************************)
\* utils.set_default_organization(label)
set_default_organization(st, lbl) == lbl

\* line 155 reached whatever the fetch returned
SelectedStoreAlways(resp, st, lbl) == set_default_organization(st, lbl)

\* lines 145-155: the store after select, written only when the fetch did not raise
SelectedStore(resp, st, lbl) ==
    IF resp.ok THEN set_default_organization(st, lbl) ELSE st

\* lines 143-156
Select ==
    /\ cmd = "select" /\ pc = "start"
    /\ \E resp \in FetchResponses :
        /\ calls' = Append(calls, Call("fetch", label, Int_(NoRev), <<>>, resp))
        /\ fetched' = resp
        /\ default_org' = SelectedStore(resp, default_org, label)
        /\ IF ~resp.ok
           THEN /\ out' = IF resp.status = 404
                          THEN error(out, Message("Could not find organization", NoUrl, 404))
                          ELSE HandleHTTPError(out, resp)
                /\ Exit("error")
                /\ UNCHANGED writes
           ELSE /\ writes' = writes + 1
                /\ out' = Append(out, Printed("echo", "organization selected."))
                /\ Exit("ok")
    /\ UNCHANGED <<cmd, label, revision, _json, _payload, name, description, data,
                   current_revision, data_md5_before, source>>
    /\ UNCHANGED ctxVars
    /\ UNCHANGED auxVars

(***************************************************************************)
(* orgs current                                                            *)
(***************************************************************************)
\* utils.get_default_organization()
get_default_organization == default_org

\* the check of line 163 left out
NoProfileNever(sel) == FALSE

\* line 163: selected_config is None
NoProfile(sel) == ~sel

\* lines 160-170
Current ==
    /\ cmd = "current" /\ pc = "start"
    /\ IF NoProfile(selected)
       THEN /\ out' = error(out, Message("You must first select a profile", NoUrl, 0))
            /\ Exit("error")
       ELSE IF get_default_organization # NoStr
       THEN /\ out' = Append(out, Printed("echo", get_default_organization))
            /\ Exit("ok")
       ELSE /\ out' = error(out, Message("No default organization selected in profile", NoUrl, 0))
            /\ Exit("error")
    /\ UNCHANGED <<cmd, label, revision, _json, _payload, name, description, data,
                   fetched, current_revision, data_md5_before, source, calls>>
    /\ UNCHANGED ctxVars
    /\ UNCHANGED <<storeVars, auxVars>>

(***************************************************************************)
(* One command invocation.                                                 *)
(***************************************************************************)
InitContexts ==
    /\ cmd = "contexts"
    /\ selected \in BOOLEAN
    /\ list \in BOOLEAN
    /\ search \in {NoTerm} \cup Terms
    /\ label = "" /\ revision = NoRev /\ _payload = NoData
    /\ name = NoStr /\ description = NoStr /\ _json = FALSE
    /\ default_org = "foo"

InitFetch ==
    /\ cmd = "fetch"
    /\ label = "foo"
    /\ revision \in {NoRev} \cup (0..MaxRev)
    /\ selected = TRUE /\ list = FALSE /\ search = NoTerm
    /\ _payload = NoData /\ name = NoStr /\ description = NoStr /\ _json = FALSE
    /\ default_org \in {NoStr, "bar"}

InitUpdate ==
    /\ cmd = "update"
    /\ label = "foo"
    /\ _payload \in {NoData} \cup {Given(text) : text \in Texts}
    /\ name \in {NoStr} \cup Strs
    /\ description \in {NoStr} \cup Strs
    /\ selected = TRUE /\ list = FALSE /\ search = NoTerm
    /\ revision = NoRev /\ _json = FALSE
    /\ default_org \in {NoStr, "bar"}

\* The orgs commands that take a label and, for some, --json-only.
InitOrgs ==
    /\ cmd \in {"create", "list", "deprecate", "select"}
    /\ label \in {"foo", "bar"}
    /\ _json \in (IF cmd = "select" THEN {FALSE} ELSE BOOLEAN)
    /\ name \in (IF cmd = "create" THEN {NoStr, "A"} ELSE {NoStr})
    /\ description \in (IF cmd = "create" THEN {NoStr, "B"} ELSE {NoStr})
    /\ default_org \in {NoStr, "foo", "bar"}
    /\ selected = TRUE /\ list = FALSE /\ search = NoTerm
    /\ revision = NoRev /\ _payload = NoData

InitCurrent ==
    /\ cmd = "current"
    /\ selected \in BOOLEAN
    /\ default_org \in {NoStr, "foo", "bar"}
    /\ label = "" /\ list = FALSE /\ search = NoTerm
    /\ revision = NoRev /\ _payload = NoData
    /\ name = NoStr /\ description = NoStr /\ _json = FALSE

\* The locals of an invocation that has not run yet.
Started ==
    /\ pc = "start" /\ exit = "running"
    /\ data_url = NoUrl /\ r = NoResponse /\ idx = 0
    /\ table = <<>> /\ count = 0 /\ gets = <<>> /\ out = <<>>
    /\ data = <<>> /\ fetched = HTTPError(0) /\ current_revision = Int_(NoRev)
    /\ data_md5_before = md5(<<>>) /\ source = "" /\ calls = <<>>

Init ==
    /\ Started
    /\ writes = 0
    /\ me = 1 /\ peer = <<>> /\ svc = <<>>
    /\ (InitContexts \/ InitFetch \/ InitUpdate \/ InitOrgs \/ InitCurrent)

Next ==
    \/ ContextsStart
    \/ ListGetPage
    \/ ListPrint
    \/ SearchStart
    \/ SearchGetPage
    \/ SearchGetItem
    \/ SearchNextLink
    \/ SearchEnd
    \/ Fetch
    \/ UpdateFetch
    \/ UpdateMutate
    \/ UpdateSubmit
    \/ Create
    \/ OrgsList
    \/ DeprecateFetch
    \/ DeprecateSubmit
    \/ Select
    \/ Current

Spec == Init /\ [][Next]_vars

(***************************************************************************)
(* Two invocations.  Each is a process of its own with its own locals; the *)
(* variables hold the locals of the invocation that is running, `peer`     *)
(* those of the other one, and Switch hands the processor over.            *)
(***************************************************************************)
Locals ==
    [cmd |-> cmd, pc |-> pc, exit |-> exit, list |-> list, search |-> search,
     data_url |-> data_url, r |-> r, idx |-> idx, table |-> table, count |-> count,
     gets |-> gets, out |-> out, label |-> label, revision |-> revision,
     _payload |-> _payload, name |-> name, description |-> description,
     data |-> data, fetched |-> fetched, current_revision |-> current_revision,
     data_md5_before |-> data_md5_before, source |-> source, calls |-> calls,
     _json |-> _json]

\* The locals of an invocation of `c` that has not run yet.
Invocation(c, lst, srch, lbl, pl, n, d) ==
    [cmd |-> c, pc |-> "start", exit |-> "running", list |-> lst, search |-> srch,
     data_url |-> NoUrl, r |-> NoResponse, idx |-> 0, table |-> <<>>, count |-> 0,
     gets |-> <<>>, out |-> <<>>, label |-> lbl, revision |-> NoRev,
     _payload |-> pl, name |-> n, description |-> d,
     data |-> <<>>, fetched |-> HTTPError(0), current_revision |-> Int_(NoRev),
     data_md5_before |-> md5(<<>>), source |-> "", calls |-> <<>>,
     _json |-> FALSE]

\* The state of invocation i, running or not.
Inv(i) == IF me = i THEN Locals ELSE peer

Switch ==
    /\ cmd' = peer.cmd /\ pc' = peer.pc /\ exit' = peer.exit
    /\ list' = peer.list /\ search' = peer.search
    /\ data_url' = peer.data_url /\ r' = peer.r /\ idx' = peer.idx
    /\ table' = peer.table /\ count' = peer.count
    /\ gets' = peer.gets /\ out' = peer.out
    /\ label' = peer.label /\ revision' = peer.revision
    /\ _payload' = peer._payload /\ name' = peer.name
    /\ description' = peer.description
    /\ data' = peer.data /\ fetched' = peer.fetched
    /\ current_revision' = peer.current_revision
    /\ data_md5_before' = peer.data_md5_before
    /\ source' = peer.source /\ calls' = peer.calls /\ _json' = peer._json
    /\ peer' = Locals
    /\ me' = 3 - me
    /\ UNCHANGED <<selected, default_org, writes, svc>>

(***************************************************************************)
(* Two `orgs update` invocations against one service.  The service keeps   *)
(* the organization in `svc`: a fetch returns it, and an update is         *)
(* accepted when its guard is the revision the service holds, and then     *)
(* stored under the next revision.                                         *)
(***************************************************************************)
\* The service accepts every write, whatever its guard
AcceptsAlways(org, rev) == TRUE

\* The service rejects a write whose guard is not the current revision.
Accepts(org, rev) == rev = DictGet(org, "_rev")

\* The organization the service holds after it accepted `new`.
Stored(old, new) == DictSet(new, "_rev", Int_(DictGet(old, "_rev")[2] + 1))

\* What the two invocations are given: an override, or a raw payload.
RaceTexts == {dumps(Org(<<"_rev", "name", "description">>, rev, n, NoStr)) :
                rev \in Revs, n \in Strs}
RaceInputs ==
    {[payload |-> NoData, name |-> n] : n \in Strs} \cup
    {[payload |-> Given(text), name |-> NoStr] : text \in RaceTexts}

InitRace ==
    /\ Started
    /\ cmd = "update" /\ label = "foo"
    /\ \E i \in RaceInputs : _payload = i.payload /\ name = i.name
    /\ description = NoStr
    /\ selected = TRUE /\ list = FALSE /\ search = NoTerm
    /\ revision = NoRev /\ _json = FALSE
    /\ default_org = "foo" /\ writes = 0
    /\ me = 1
    /\ peer \in {Invocation("update", FALSE, NoTerm, "foo", i.payload, i.name, NoStr) :
                    i \in RaceInputs}
    /\ svc \in {Org(o, 1, "A", NoStr) : o \in KeyOrders}

\* line 59 against the service: a fetch that succeeds returns what is stored
RaceFetch ==
    /\ UpdateFetchStep
    /\ fetched'.ok => fetched'.org = svc
    /\ UNCHANGED <<storeVars, auxVars>>

RaceMutate == UpdateMutateStep /\ UNCHANGED <<storeVars, auxVars>>

\* lines 84-93 against the service
RaceSubmit ==
    /\ UpdateSubmitStep
    /\ IF calls' = calls
       THEN svc' = svc
       ELSE LET c == calls'[Len(calls')] IN
            /\ c.resp.ok = Accepts(svc, c.rev)
            /\ svc' = IF c.resp.ok THEN Stored(svc, c.org) ELSE svc
    /\ UNCHANGED <<storeVars, me, peer>>

\* The other process runs, as long as it has something to do.
RaceSwitch == peer.pc # "done" /\ Switch

NextRace ==
    \/ RaceFetch
    \/ RaceMutate
    \/ RaceSubmit
    \/ RaceSwitch

SpecRace == InitRace /\ [][NextRace]_vars

(***************************************************************************)
(* Reading the logs.                                                       *)
(***************************************************************************)
Last(q) == q[Len(q)]

\* The page GETs of one traversal ("list" or "search"), in order.
PageGets(by) == SelectSeq(gets, LAMBDA g : g.kind = "page" /\ g.by = by)
DetailGets == SelectSeq(gets, LAMBDA g : g.kind = "detail")

RECURSIVE Flatten(_)
\* The items of a sequence of pages, page after page.
Flatten(ps) ==
    IF ps = <<>> THEN <<>> ELSE Head(ps).resp.body.results \o Flatten(Tail(ps))

RECURSIVE SumLen(_)
\* The sum of the k_i of a sequence of pages.
SumLen(ps) ==
    IF ps = <<>> THEN 0 ELSE Len(Head(ps).resp.body.results) + SumLen(Tail(ps))

\* A page with status 200 and a `results` list.
GoodPage(resp) == resp.status = 200 /\ resp.body.json /\ resp.body.hasResults
\* A good page with no `links` object, or a `links` object without `next`.
NoNextPage(resp) ==
    GoodPage(resp) /\ (~resp.body.links.present \/ resp.body.links.next = NoUrl)

OutOfKind(kind) == SelectSeq(out, LAMBDA e : e.kind = kind)
TablePrinted == OutOfKind("table") # <<>>

\* The list traversal is under way or has ended, and no page of it has failed.
ListRunning ==
    /\ cmd = "contexts" /\ list /\ pc # "start"
    /\ \A i \in 1..Len(PageGets("list")) : GoodPage(PageGets("list")[i].resp)

(***************************************************************************)
(* Two `contexts --search` invocations with different terms against one    *)
(* service.  The first runs to its end, then the second runs; the service  *)
(* is the same for both: as long as the second has issued the requests the *)
(* first has issued, in the same order, it is given the same responses.    *)
(***************************************************************************)
\* The service gives the log `g` of the second invocation the responses it
\* gave the first one.
SameService(g) ==
    (/\ me = 2
     /\ Len(g) <= Len(peer.gets)
     /\ SubSeq(g, 1, Len(g) - 1) = SubSeq(peer.gets, 1, Len(g) - 1)
     /\ g[Len(g)].kind = peer.gets[Len(g)].kind
     /\ g[Len(g)].url = peer.gets[Len(g)].url)
        => g[Len(g)].resp = peer.gets[Len(g)].resp

InitTwin ==
    /\ Started
    /\ cmd = "contexts" /\ list = FALSE
    /\ search \in Terms
    /\ label = "" /\ revision = NoRev /\ _payload = NoData
    /\ name = NoStr /\ description = NoStr /\ _json = FALSE
    /\ selected = TRUE /\ default_org = "foo" /\ writes = 0
    /\ me = 1
    /\ peer \in {Invocation("contexts", FALSE, t, "", NoData, NoStr, NoStr) :
                    t \in Terms \ {search}}
    /\ svc = <<>>

\* lines 65-76 against the service
TwinGetPage ==
    /\ SearchGetPageStep
    /\ SameService(gets')
    /\ UNCHANGED <<storeVars, auxVars>>

\* lines 78-89 against the service
TwinGetItem ==
    /\ SearchGetItemStep
    /\ SameService(gets')
    /\ UNCHANGED <<storeVars, auxVars>>

\* The first invocation has ended: the second one runs.
TwinSwitch == me = 1 /\ pc = "done" /\ Switch

NextTwin ==
    \/ ContextsStart
    \/ SearchStart
    \/ TwinGetPage
    \/ TwinGetItem
    \/ SearchNextLink
    \/ SearchEnd
    \/ TwinSwitch

SpecTwin == InitTwin /\ [][NextTwin]_vars

(***************************************************************************)
(* C1  Pagination completeness: when `contexts --list` is answered with a  *)
(* finite chain of N pages, each with status 200 and a `results` list of   *)
(* k_i items, the table holds exactly one row per item, in page order and  *)
(* in the order inside each page, and the total printed at the end is the  *)
(* sum of the k_i.                                                         *)
(***************************************************************************)
PaginationCompleteness ==
    ListRunning =>
        /\ table = Flatten(PageGets("list"))
        \* the search branch starts its own counter (line 64)
        /\ pc \in {"list_loop", "search_check"} => count = SumLen(PageGets("list"))
        /\ TablePrinted =>
            /\ out[1] = Printed("table", Flatten(PageGets("list")))
            /\ out[2] = Printed("total", SumLen(PageGets("list")))
            /\ Len(OutOfKind("table")) = 1 /\ Len(OutOfKind("total")) = 1

PaginationCompletenessWitness ==
    /\ ListRunning /\ TablePrinted
    /\ Len(PageGets("list")) = 3
    /\ out[1].val = <<2, 1, 1, 2, 1>>
    /\ out[2].val = 5

(***************************************************************************)
(* C2  Pagination termination: in the list and in the search traversal,    *)
(* once the link check of a parsed page finds no next link (no `links`, or *)
(* `links` without `next`) the traversal ends normally and issues no       *)
(* further GET; after such a page was parsed no further page is requested  *)
(* (the search traversal still fetches the details of that page's items    *)
(* before its link check).                                                 *)
(***************************************************************************)
ListAtEnd ==
    /\ cmd = "contexts" /\ pc = "list_loop"
    /\ PageGets("list") # <<>>
    /\ NoNextPage(Last(PageGets("list")).resp)

SearchParsedLast ==
    /\ cmd = "contexts" /\ pc \in {"search_items", "search_loop"}
    /\ PageGets("search") # <<>>
    /\ NoNextPage(Last(PageGets("search")).resp)

PaginationTermination ==
    [][ /\ ListAtEnd =>
            /\ gets' = gets
            /\ pc' = "search_check" /\ exit' = "running"
            /\ out' = <<Printed("table", table), Printed("total", count)>>
        /\ SearchParsedLast =>
            /\ PageGets("search")' = PageGets("search")
            /\ pc = "search_loop" => (gets' = gets /\ exit' = "ok" /\ pc' = "done")
      ]_vars

PaginationTerminationWitness ==
    /\ cmd = "contexts" /\ exit = "ok"
    /\ Len(PageGets("list")) = 2 /\ ~Last(PageGets("list")).resp.body.links.present
    /\ Len(PageGets("search")) = 1 /\ Last(PageGets("search")).resp.body.links.present
    /\ Len(DetailGets) = 1

(***************************************************************************)
(* C3  The traversal never requests the same page URL twice, whatever the  *)
(* service answers.  The loop follows every `next` link it is given: a     *)
(* link to a URL already requested is requested again.                     *)
(***************************************************************************)
NoPageRevisited ==
    \A by \in {"list", "search"} :
        \A i, j \in 1..Len(PageGets(by)) :
            i # j => PageGets(by)[i].url # PageGets(by)[j].url

(***************************************************************************)
(* C4  Fatal page failure: once the GET of a page has returned a status    *)
(* other than success, the command has terminated with an error that names *)
(* that page's URL and its status, and that GET is the last request.       *)
(***************************************************************************)
FatalPageFailure ==
    \A i \in 1..Len(gets) :
        (gets[i].kind = "page" /\ gets[i].resp.status # 200) =>
            /\ i = Len(gets)
            /\ pc = "done" /\ exit = "error"
            /\ Last(out).kind = "error"
            /\ Last(out).val.url = gets[i].url
            /\ Last(out).val.num = gets[i].resp.status

FatalPageFailureWitness ==
    /\ list /\ search # NoTerm
    /\ Len(gets) = 2
    /\ gets[2].kind = "page" /\ gets[2].by = "list" /\ gets[2].resp.status = 500
    /\ gets[2].url = 2
    /\ exit = "error"

(***************************************************************************)
(* C5  Partial output on a failure in the middle of `--list`.              *)
(***************************************************************************)
\* Page j of the list traversal has just failed.
ListPageFailed ==
    /\ cmd = "contexts" /\ gets # <<>>
    /\ Last(gets).kind = "page" /\ Last(gets).by = "list"
    /\ Last(gets).resp.status # 200

EarlierPages == SubSeq(gets, 1, Len(gets) - 1)

RECURSIVE Rows(_)
\* The rows of the tables that were printed.
Rows(o) ==
    IF o = <<>> THEN <<>>
    ELSE (IF Head(o).kind = "table" THEN Head(o).val ELSE <<>>) \o Rows(Tail(o))

\* The claim as stated: when page j fails, exactly the items of the pages
\* 1..j-1 have been emitted to the output.
PartialOutputEmitted ==
    (ListPageFailed /\ pc = "done") => Rows(out) = Flatten(EarlierPages)

\* As amended: when page j fails, exactly the items of the pages 1..j-1 have
\* been added to the table and counted, and nothing of the table has been
\* printed: the output holds the error message alone.
PartialOutputHeld ==
    (ListPageFailed /\ pc = "done") =>
        /\ table = Flatten(EarlierPages)
        /\ count = SumLen(EarlierPages)
        /\ Len(out) = 1 /\ out[1].kind = "error"
        /\ Rows(out) = <<>>

PartialOutputHeldWitness ==
    /\ ListPageFailed /\ pc = "done"
    /\ Len(gets) = 3
    /\ table = <<2, 1, 1>>

(***************************************************************************)
(* C6  A failed detail fetch is fatal: once the GET of an item's URL has   *)
(* returned a status other than success, the command has failed with an    *)
(* error, the item's payload is not printed and no request follows.        *)
(***************************************************************************)
DetailFailureFatal ==
    \A i \in 1..Len(gets) :
        (gets[i].kind = "detail" /\ gets[i].resp.status # 200) =>
            /\ i = Len(gets)
            /\ pc = "done" /\ exit \in {"error", "crash"}
            /\ \A k \in 1..Len(out) :
                out[k].kind = "json" => out[k].val.resp.status = 200

(***************************************************************************)
(* Reading the log of client calls of `orgs update`.                       *)
(***************************************************************************)
UpdateCalls == SelectSeq(calls, LAMBDA c : c.op = "update")

\* A dictionary as the mapping it denotes: the set of its pairs.
Mapping(d) == {d[i] : i \in 1..Len(d)}

\* The update command has derived its new state (lines 64-82 ran to the end).
NewStateDerived ==
    cmd = "update" /\ fetched.ok /\ source # "" /\ exit # "crash"

UpdateEnded == NewStateDerived /\ pc = "done"

\* An override that is given names the value the fetched resource has.
OverridesEqualFetched ==
    /\ name # NoStr =>
        HasKey(fetched.org, "name") /\ DictGet(fetched.org, "name") = Str_(name)
    /\ description # NoStr =>
        HasKey(fetched.org, "description")
            /\ DictGet(fetched.org, "description") = Str_(description)

(***************************************************************************)
(* C7  Update idempotence with field overrides: `orgs update` with a       *)
(* --name and/or --description equal to the values of the fetched          *)
(* resource issues no update call and reports "no change".                 *)
(***************************************************************************)
UpdateIdempotence ==
    (UpdateEnded /\ ~_payload.given /\ (name # NoStr \/ description # NoStr)
        /\ OverridesEqualFetched) =>
        /\ UpdateCalls = <<>>
        /\ out = <<Printed("echo", "No change in organization, aborting update.")>>
        /\ exit = "ok"

UpdateIdempotenceWitness ==
    /\ UpdateEnded /\ ~_payload.given
    /\ name = "A" /\ description = "B"
    /\ OverridesEqualFetched
    /\ Len(calls) = 1

(***************************************************************************)
(* C8  Update executes on diff with the fetched revision: when the new     *)
(* state differs from the fetched state, whatever the mutation source,     *)
(* exactly one update call is issued, it carries the new state, and its    *)
(* revision guard is the `_rev` the fetch of this invocation returned.     *)
(***************************************************************************)
UpdateOnDiff ==
    (UpdateEnded /\ Mapping(data) # Mapping(fetched.org)) =>
        /\ Len(UpdateCalls) = 1
        /\ Len(calls) = 2 /\ calls[1].op = "fetch" /\ calls[2].op = "update"
        /\ calls[2].org = data
        /\ calls[2].rev = DictGet(fetched.org, "_rev")

UpdateOnDiffWitness ==
    /\ UpdateEnded /\ source = "payload"
    /\ HasKey(data, "_rev")
    /\ DictGet(data, "_rev") = Int_(2) /\ DictGet(fetched.org, "_rev") = Int_(1)
    /\ Len(UpdateCalls) = 1 /\ UpdateCalls[1].rev = Int_(1)

(***************************************************************************)
(* C9  Mutation-source precedence: with --data, also when --name or        *)
(* --description are given too, the state that is fingerprinted and        *)
(* submitted is the parsed --data payload; one source is used: the         *)
(* overrides only without --data, the editor only when nothing is given.   *)
(***************************************************************************)
SourcePrecedence ==
    (cmd = "update" /\ source # "") =>
        /\ source = (IF _payload.given THEN "payload"
                     ELSE IF name # NoStr \/ description # NoStr THEN "overrides"
                     ELSE "editor")
        /\ (_payload.given /\ ValidJson(_payload.text)) =>
            /\ data = loads(_payload.text)
            /\ pc = "done" =>
                /\ \A i \in 1..Len(UpdateCalls) :
                    UpdateCalls[i].org = loads(_payload.text)
                /\ UpdateCalls = <<>> <=>
                    Fingerprint(loads(_payload.text)) = Fingerprint(fetched.org)

SourcePrecedenceWitness ==
    /\ UpdateEnded /\ _payload.given
    /\ name = "B" /\ description = "B"
    /\ Len(UpdateCalls) = 1
    /\ DictGet(UpdateCalls[1].org, "name") = Str_("A")
    /\ ~HasKey(UpdateCalls[1].org, "description")

(***************************************************************************)
(* C10  Revision mismatch: `orgs fetch <label> --revision N` fails with an *)
(* error mentioning N when the returned resource has another `_rev`, and   *)
(* does not print the resource; without --revision, or with `_rev` equal   *)
(* to N, the resource is printed and the command succeeds.                 *)
(***************************************************************************)
FetchRevisionMismatch ==
    (cmd = "fetch" /\ pc = "done" /\ fetched.ok) =>
        IF revision # NoRev /\ DictGet(fetched.org, "_rev") # Int_(revision)
        THEN /\ exit = "error"
             /\ out = <<Printed("error", Message("Revision does not exist", NoUrl, revision))>>
        ELSE /\ exit = "ok"
             /\ out = <<Printed("json", fetched.org)>>

FetchRevisionMismatchWitness ==
    /\ cmd = "fetch" /\ pc = "done" /\ fetched.ok
    /\ revision = 2 /\ DictGet(fetched.org, "_rev") = Int_(1)
    /\ exit = "error"

(***************************************************************************)
(* C11  Select writes the config store only on success: `orgs select`      *)
(* stores `label` as the default organization if and only if the fetch     *)
(* succeeded; on HTTP 404 it fails with a not-found error, on any other    *)
(* failure it prints the error payload and fails, and in both cases the    *)
(* config store is left as it was.                                         *)
(***************************************************************************)
SelectRuns == cmd = "select" /\ pc = "start" /\ pc' = "done"

SelectWritesOnSuccess ==
    [][ SelectRuns =>
            IF fetched'.ok
            THEN /\ default_org' = label /\ writes' = writes + 1
                 /\ exit' = "ok"
            ELSE /\ default_org' = default_org /\ writes' = writes
                 /\ selected' = selected
                 /\ exit' = "error"
                 /\ IF fetched'.status = 404
                    THEN out' = <<Printed("error",
                                   Message("Could not find organization", NoUrl, 404))>>
                    ELSE out' = <<Printed("red_json", fetched'),
                                  Printed("error",
                                   Message("HTTPError", NoUrl, fetched'.status))>>
      ]_vars

SelectWritesOnSuccessWitness ==
    /\ cmd = "select" /\ pc = "done"
    /\ ~fetched.ok /\ fetched.status = 404
    /\ label = "foo" /\ default_org = "bar"
    /\ exit = "error" /\ writes = 0

(***************************************************************************)
(* C12  Deprecate is fetch-then-guarded-write: `orgs deprecate` issues one *)
(* fetch and, once it has returned a resource, one deprecation request     *)
(* whose revision guard is the `_rev` of that resource; no deprecation     *)
(* request is issued before the fetch has returned.                        *)
(***************************************************************************)
DeprecateGuarded ==
    cmd = "deprecate" =>
        /\ Len(calls) <= 2
        /\ Len(calls) >= 1 => calls[1].op = "fetch" /\ calls[1].label = label
        /\ Len(calls) = 2 =>
            /\ calls[1].resp.ok
            /\ calls[2].op = "deprecate" /\ calls[2].label = label
            /\ calls[2].rev = DictGet(calls[1].resp.org, "_rev")
        /\ (pc = "done" /\ fetched.ok) => Len(calls) = 2

DeprecateGuardedWitness ==
    /\ cmd = "deprecate" /\ pc = "done" /\ exit = "ok"
    /\ Len(calls) = 2
    /\ calls[2].rev = Int_(2)

(***************************************************************************)
(* C13  `orgs current` fails with a configuration error when no profile is *)
(* selected, fails with a configuration error when the selected profile    *)
(* has no default organization, and otherwise prints the stored default;   *)
(* it never writes the config store and issues no network request.         *)
(***************************************************************************)
CurrentRuns == cmd = "current" /\ pc = "start" /\ pc' = "done"

CurrentReadsOnly ==
    [][ CurrentRuns =>
            /\ default_org' = default_org /\ selected' = selected /\ writes' = 0
            /\ calls' = <<>> /\ gets' = <<>>
            /\ IF ~selected
               THEN /\ exit' = "error"
                    /\ out' = <<Printed("error",
                                 Message("You must first select a profile", NoUrl, 0))>>
               ELSE IF default_org = NoStr
               THEN /\ exit' = "error"
                    /\ out' = <<Printed("error",
                                 Message("No default organization selected in profile",
                                         NoUrl, 0))>>
               ELSE /\ exit' = "ok"
                    /\ out' = <<Printed("echo", default_org)>>
      ]_vars

CurrentReadsOnlyWitness ==
    /\ cmd = "current" /\ pc = "done"
    /\ ~selected /\ default_org = "foo"
    /\ exit = "error"

(***************************************************************************)
(* C15  Malformed page is fatal: once the GET of a page has returned the   *)
(* success status and a body that parses but has no `results` field, the   *)
(* command has printed that raw payload, then failed with an error; that   *)
(* GET is the last request (no item of the page, no further page), also    *)
(* when the body carries a `next` link, and nothing is added to the table. *)
(***************************************************************************)
MalformedPage(g) ==
    /\ g.kind = "page" /\ g.resp.status = 200
    /\ g.resp.body.json /\ ~g.resp.body.hasResults

MalformedPageFatal ==
    \A i \in 1..Len(gets) :
        MalformedPage(gets[i]) =>
            /\ i = Len(gets)
            /\ pc = "done" /\ exit = "error"
            /\ Len(out) >= 2
            /\ out[Len(out) - 1] = Printed("red_json", gets[i].resp.body)
            /\ Last(out).kind = "error"
            /\ Last(out).val = Message("Could not find attribute 'results'", gets[i].url, 0)
            /\ gets[i].by = "list" =>
                    table = Flatten(SubSeq(PageGets("list"), 1, Len(PageGets("list")) - 1))
            /\ OutOfKind("table") = <<>> \/ gets[i].by = "search"

MalformedPageFatalWitness ==
    /\ Len(gets) = 3
    /\ gets[2].kind = "detail"
    /\ MalformedPage(gets[3]) /\ gets[3].by = "search"
    /\ gets[3].resp.body.links.next = 1
    /\ exit = "error"

(***************************************************************************)
(* C19  No write after a failed read: in `orgs update` and in `orgs        *)
(* deprecate`, a client call that failed with an HTTP error is the last    *)
(* call of the invocation: after a failed fetch no update or deprecation   *)
(* request is issued, and a rejected update or deprecation is followed by  *)
(* no further request.  The command has printed the body of the error      *)
(* response, then the error, and has ended in the error state.             *)
(***************************************************************************)
NoWriteAfterFailedRead ==
    cmd \in {"update", "deprecate"} =>
        /\ \A i \in 1..Len(calls) :
            /\ calls[i].op = "fetch" <=> i = 1
            /\ ~calls[i].resp.ok =>
                /\ i = Len(calls)
                /\ pc = "done" /\ exit = "error"
                /\ Len(out) >= 2
                /\ out[Len(out) - 1] = Printed("red_json", calls[i].resp)
                /\ Last(out).kind = "error"
                /\ Last(out).val.num = calls[i].resp.status
        /\ Len(calls) <= 2

NoWriteAfterFailedReadWitness ==
    /\ cmd = "deprecate" /\ _json
    /\ Len(calls) = 1 /\ calls[1].op = "fetch" /\ calls[1].resp = HTTPError(500)
    /\ pc = "done" /\ exit = "error"

(***************************************************************************)
(* C18  The config store is written only by select: no step of a           *)
(* `contexts`, `orgs fetch`, `orgs create`, `orgs update`, `orgs list`,    *)
(* `orgs deprecate` or `orgs current` invocation changes the config store  *)
(* (the selected profile and the default organization), whether the        *)
(* invocation succeeds or fails, and an `orgs select` invocation writes it *)
(* at most once.  A sequence of invocations is a sequence of such steps.   *)
(***************************************************************************)
ConfigStore == <<selected, default_org>>

StoreWrittenOnlyBySelect ==
    [][ /\ cmd # "select" => (ConfigStore' = ConfigStore /\ writes' = writes)
        /\ cmd = "select" =>
            /\ writes' <= 1
            /\ ConfigStore' # ConfigStore => writes' = writes + 1
      ]_vars

StoreWrittenOnlyBySelectWitness ==
    /\ cmd = "create" /\ pc = "done" /\ exit = "ok"
    /\ label = "foo" /\ default_org = "bar" /\ writes = 0

(***************************************************************************)
(* C17  Strictly sequential call chain without retry: every GET of the     *)
(* search traversal is either a page GET or the detail GET of the next     *)
(* item of the page fetched last, one GET per item in item order; a page   *)
(* is requested only after every item of the page before it was fetched;   *)
(* and no URL whose request failed is requested again.  The last part      *)
(* fails: a failed detail GET does not stop the traversal (C6), so the     *)
(* same item URL listed by a later page is requested again.                *)
(***************************************************************************)
SearchGets == SelectSeq(gets, LAMBDA g : g.by = "search")

\* The position of the page GET that the k-th search GET belongs to.
PageBefore(k) ==
    CHOOSE p \in 0..k :
        /\ p = 0 \/ SearchGets[p].kind = "page"
        /\ \A q \in (p + 1)..k : SearchGets[q].kind # "page"

\* The k-th search GET is the detail GET of item k - p of the page at p.
DetailInOrder(k) ==
    LET p == PageBefore(k - 1) IN
        /\ p > 0
        /\ k - p <= Len(SearchGets[p].resp.body.results)
        /\ SearchGets[k].url = SearchGets[p].resp.body.results[k - p]

\* The k-th search GET is a page GET: every item of the page before was fetched.
PageAfterItems(k) ==
    LET p == PageBefore(k - 1) IN
        p > 0 => k - p - 1 = Len(SearchGets[p].resp.body.results)

GetFailed(g) == g.resp.status # 200

SequentialChainNoRetry ==
    /\ \A k \in 1..Len(SearchGets) :
        IF SearchGets[k].kind = "detail" THEN DetailInOrder(k) ELSE PageAfterItems(k)
    /\ \A i, j \in 1..Len(gets) :
        (i < j /\ GetFailed(gets[i]) /\ gets[i].kind = gets[j].kind) =>
            gets[j].url # gets[i].url

(***************************************************************************)
(* C16  No-op detection is content-based: when the raw --data payload or   *)
(* the edited text denotes the same mapping of fields to values as the     *)
(* fetched organization, with the keys in any order at the top level and   *)
(* inside nested objects, the fingerprints before and after are equal and  *)
(* no update call is issued.  This fails for nested objects: the code      *)
(* sorts the top-level keys only.                                          *)
(***************************************************************************)
Keys(d) == {d[i][1] : i \in 1..Len(d)}

RECURSIVE SameMapping(_, _)
\* Two dictionaries denote the same mapping, whatever the order of their keys.
SameMapping(d1, d2) ==
    /\ Keys(d1) = Keys(d2)
    /\ \A k \in Keys(d1) :
        LET v1 == DictGet(d1, k)
            v2 == DictGet(d2, k)
        IN  /\ v1[1] = v2[1]
            /\ IF v1[1] = "obj" THEN SameMapping(v1[2], v2[2]) ELSE v1 = v2

NoOpContentBased ==
    (UpdateEnded /\ source \in {"payload", "editor"} /\ SameMapping(data, fetched.org)) =>
        /\ Fingerprint(data) = data_md5_before
        /\ UpdateCalls = <<>>

(***************************************************************************)
(* C14  No lost update under interleaving: when two `orgs update`          *)
(* invocations have both fetched the same organization at the same         *)
(* revision and both have submitted a new state, the two states being      *)
(* different, and the service rejects a write whose guard is not the       *)
(* current revision, at most one of the two writes is accepted; the        *)
(* invocation whose write is rejected has ended in error, and each         *)
(* invocation has issued one write and no more (no retry).                 *)
(***************************************************************************)
WritesOf(i) == SelectSeq(Inv(i).calls, LAMBDA c : c.op = "update")

BothSubmitted ==
    /\ Inv(1).fetched.ok /\ Inv(2).fetched.ok
    /\ Inv(1).label = Inv(2).label
    /\ DictGet(Inv(1).fetched.org, "_rev") = DictGet(Inv(2).fetched.org, "_rev")
    /\ WritesOf(1) # <<>> /\ WritesOf(2) # <<>>
    /\ WritesOf(1)[1].org # WritesOf(2)[1].org

NoLostUpdate ==
    BothSubmitted =>
        /\ ~(WritesOf(1)[1].resp.ok /\ WritesOf(2)[1].resp.ok)
        /\ \A i \in {1, 2} :
            /\ Len(WritesOf(i)) = 1 /\ Len(Inv(i).calls) = 2
            /\ Inv(i).pc = "done"
            /\ ~WritesOf(i)[1].resp.ok => Inv(i).exit = "error"

NoLostUpdateWitness ==
    /\ BothSubmitted
    /\ WritesOf(2)[1].resp.ok /\ ~WritesOf(1)[1].resp.ok
    /\ Inv(1).exit = "error" /\ Inv(2).exit = "ok"
    /\ Inv(1).source = "payload" /\ Inv(2).source = "overrides"
    /\ DictGet(svc, "_rev") = Int_(2)

(***************************************************************************)
(* C20  The search term does not influence the traversal: of two           *)
(* `contexts --search` invocations with different terms against the same   *)
(* service, the second issues the requests of the first, in the same       *)
(* order, and emits the same output, up to the same end; and the output of *)
(* a search that ends normally holds the detail payload of every item of   *)
(* every page, in order (no item is filtered out by the term).             *)
(***************************************************************************)
IsPrefix(a, b) == Len(a) <= Len(b) /\ a = SubSeq(b, 1, Len(a))

RECURSIVE EmittedWithTerms(_)
\* What the search loop prints for a sequence of detail GETs.
EmittedWithTerms(ds) ==
    IF ds = <<>> THEN <<>>
    ELSE PrintTerms(<<Printed("json", [url |-> Head(ds).url, resp |-> Head(ds).resp])>>,
                    IF Head(ds).resp.body.hasContext
                    THEN Head(ds).resp.body.terms ELSE <<>>)
            \o EmittedWithTerms(Tail(ds))

====
